---- MODULE Spec2Model ----
(***************************************************************************)
(* Model of src/main.py: the video -> audio -> segments -> concurrent      *)
(* speech recognition -> printed transcript pipeline.                      *)
(*                                                                         *)
(* Times are counted in ticks of 1/TicksPerSecond second so that the       *)
(* float duration returned by ffprobe may have a fractional part.          *)
(* SEGMENT_DIVIDER is the module global of line 13: os.getenv yields a     *)
(* str, for which line 101 raises TypeError; an importer may rebind the    *)
(* global to an int, which is the case the segmentation arithmetic is      *)
(* about.                                                                  *)
(***************************************************************************)
EXTENDS Integers, Sequences, FiniteSets, TLC

\* ---- bounds of the model ----
TicksPerSecond == 2
MaxDuration == 5           \* largest small probed duration, in ticks
MaxDivisor == 2            \* largest integer bound to SEGMENT_DIVIDER
MaxSegments == 3           \* cap on iterations of the segmentation loop

\* durations (in seconds) of the two long recordings also probed
LongDurations == {125, 7322}

Durations == (0..MaxDuration) \cup {d * TicksPerSecond : d \in LongDurations}

Divisors ==
    [type : {"int"}, value : (-1)..MaxDivisor] \cup {[type |-> "str", value |-> 2]}

\* resp.results of one recognition: the transcripts of alternatives[0]
Results == {<<>>, <<"a">>, <<"c">>, <<"a", "b">>, <<"b", "a">>}

WorkerErrors == {"TimeoutError", "GoogleAPICallError"}

VARIABLES
    pc,                \* position of transcript_from_local_file
    SEGMENT_DIVIDER,   \* module global, line 13
    extract,           \* outcome of extract_audio_from_gcs
    convert,           \* outcome of convert_to_mono
    probe,             \* outcome of the ffprobe call
    duration,          \* line 98, in ticks
    segment_duration,  \* module global, line 101, in ticks
    start_time,        \* loop variable, in ticks
    end_time,          \* loop variable, in ticks
    segment_index,     \* loop variable
    cuts,              \* the ffmpeg segment extractions invoked so far
    segments,          \* the list built by split_audio_into_segments
    tasks,             \* the asyncio tasks of line 197
    completed,         \* task positions in the order they finished
    firstExc,          \* task whose exception gather propagates, 0 if none
    content,           \* result of asyncio.gather
    ci, ri,            \* positions of the two print loops
    output,            \* the lines printed by line 202
    error              \* the exception that ended the run

vars == <<pc, SEGMENT_DIVIDER, extract, convert, probe, duration,
          segment_duration, start_time, end_time, segment_index, cuts,
          segments, tasks, completed, firstExc, content, ci, ri, output,
          error>>

NoError == [kind |-> "none", task |-> 0]

\* ---- pure helpers ----

\* Python's // on numbers: floor division, for either sign of the divisor
PyFloorDiv(a, b) == IF b > 0 THEN a \div b ELSE (-a) \div (-b)

Min(a, b) == IF a < b THEN a ELSE b

\* line 101: duration // SEGMENT_DIVIDER, a whole number of seconds
SegmentDuration(dur, divisor) ==
    PyFloorDiv(dur, divisor * TicksPerSecond) * TicksPerSecond

\* variant of line 111 without the clamp to the duration
EndTime_unclamped(start, seg, dur) == start + seg

\* line 111
EndTime(start, seg, dur) == Min(start + seg, dur)

\* line 112: HH:MM:SS of a start time, as the triple of its three fields
StartTimeStr(start) ==
    << start \div (3600 * TicksPerSecond),
       (start % (3600 * TicksPerSecond)) \div (60 * TicksPerSecond),
       (start % (60 * TicksPerSecond)) \div TicksPerSecond >>

\* an exception leaves transcript_from_local_file
Raise(kind, task) ==
    /\ pc' = "raised"
    /\ error' = [kind |-> kind, task |-> task]

Init ==
    /\ pc = "extract"
    /\ SEGMENT_DIVIDER \in Divisors
    /\ extract = "none"
    /\ convert = "none"
    /\ probe = "none"
    /\ duration = 0
    /\ segment_duration = 0
    /\ start_time = 0
    /\ end_time = 0
    /\ segment_index = 0
    /\ cuts = <<>>
    /\ segments = <<>>
    /\ tasks = <<>>
    /\ completed = <<>>
    /\ firstExc = 0
    /\ content = <<>>
    /\ ci = 0
    /\ ri = 0
    /\ output = <<>>
    /\ error = NoError

\* ---- extraction and conversion, lines 183-190 ----

ExtractOk ==
    /\ pc = "extract"
    /\ extract' = "ok"
    /\ pc' = "convert"
    /\ UNCHANGED <<SEGMENT_DIVIDER, convert, probe, duration, segment_duration,
                   start_time, end_time, segment_index, cuts, segments, tasks,
                   completed, firstExc, content, ci, ri, output, error>>

ExtractFail ==
    /\ pc = "extract"
    /\ extract' = "failed"
    /\ Raise("SystemExit", 0)
    /\ UNCHANGED <<SEGMENT_DIVIDER, convert, probe, duration, segment_duration,
                   start_time, end_time, segment_index, cuts, segments, tasks,
                   completed, firstExc, content, ci, ri, output>>

ConvertOk ==
    /\ pc = "convert"
    /\ convert' = "ok"
    /\ pc' = "probe"
    /\ UNCHANGED <<SEGMENT_DIVIDER, extract, probe, duration, segment_duration,
                   start_time, end_time, segment_index, cuts, segments, tasks,
                   completed, firstExc, content, ci, ri, output, error>>

\* convert_to_mono returns False; line 187 discards the return value
ConvertFail ==
    /\ pc = "convert"
    /\ convert' = "failed"
    /\ pc' = "probe"
    /\ UNCHANGED <<SEGMENT_DIVIDER, extract, probe, duration, segment_duration,
                   start_time, end_time, segment_index, cuts, segments, tasks,
                   completed, firstExc, content, ci, ri, output, error>>

\* ---- split_audio_into_segments, lines 68-155 ----

ProbeOk ==
    /\ pc = "probe"
    /\ \E d \in Durations : duration' = d
    /\ probe' = "ok"
    /\ pc' = "plan"
    /\ UNCHANGED <<SEGMENT_DIVIDER, extract, convert, segment_duration,
                   start_time, end_time, segment_index, cuts, segments, tasks,
                   completed, firstExc, content, ci, ri, output, error>>

\* ffprobe exits non-zero (check=True), e.g. the converted file is missing
ProbeFail ==
    /\ pc = "probe"
    /\ probe' = "failed"
    /\ Raise("CalledProcessError", 0)
    /\ UNCHANGED <<SEGMENT_DIVIDER, extract, convert, duration,
                   segment_duration, start_time, end_time, segment_index, cuts,
                   segments, tasks, completed, firstExc, content, ci, ri,
                   output>>

\* lines 100-109
Plan ==
    /\ pc = "plan"
    /\ IF SEGMENT_DIVIDER.type # "int"
         THEN /\ Raise("TypeError", 0)
              /\ UNCHANGED <<segment_duration, start_time, segment_index>>
         ELSE IF SEGMENT_DIVIDER.value = 0
         THEN /\ Raise("ZeroDivisionError", 0)
              /\ UNCHANGED <<segment_duration, start_time, segment_index>>
         ELSE /\ segment_duration' =
                     SegmentDuration(duration, SEGMENT_DIVIDER.value)
              /\ start_time' = 0
              /\ segment_index' = 1
              /\ pc' = "loop"
              /\ error' = error
    /\ UNCHANGED <<SEGMENT_DIVIDER, extract, convert, probe, duration,
                   end_time, cuts, segments, tasks, completed, firstExc,
                   content, ci, ri, output>>

\* lines 110-138, ffmpeg succeeds
CutOk ==
    /\ pc = "loop"
    /\ start_time < duration
    /\ segment_index <= MaxSegments
    /\ end_time' = EndTime(start_time, segment_duration, duration)
    /\ cuts' = Append(cuts, [index |-> segment_index, start |-> start_time,
                             end |-> end_time'])
    /\ pc' = "upload"
    /\ UNCHANGED <<SEGMENT_DIVIDER, extract, convert, probe, duration,
                   segment_duration, start_time, segment_index, segments,
                   tasks, completed, firstExc, content, ci, ri, output, error>>

\* lines 110-138, ffmpeg exits non-zero (check=True)
CutFail ==
    /\ pc = "loop"
    /\ start_time < duration
    /\ segment_index <= MaxSegments
    /\ end_time' = EndTime(start_time, segment_duration, duration)
    /\ cuts' = Append(cuts, [index |-> segment_index, start |-> start_time,
                             end |-> end_time'])
    /\ Raise("CalledProcessError", 0)
    /\ UNCHANGED <<SEGMENT_DIVIDER, extract, convert, probe, duration,
                   segment_duration, start_time, segment_index, segments,
                   tasks, completed, firstExc, content, ci, ri, output>>

\* lines 139-148 and 152-154
UploadOk ==
    /\ pc = "upload"
    /\ segments' = Append(segments, [uri |-> segment_index,
                                     start_time |-> StartTimeStr(start_time)])
    /\ start_time' = end_time
    /\ segment_index' = segment_index + 1
    /\ pc' = "loop"
    /\ UNCHANGED <<SEGMENT_DIVIDER, extract, convert, probe, duration,
                   segment_duration, end_time, cuts, tasks, completed,
                   firstExc, content, ci, ri, output, error>>

\* variant of lines 149-154: the failed upload is logged and the loop goes on
\* to the next window without a segment for this one
UploadFail_skip ==
    /\ pc = "upload"
    /\ start_time' = end_time
    /\ segment_index' = segment_index + 1
    /\ pc' = "loop"
    /\ UNCHANGED <<SEGMENT_DIVIDER, extract, convert, probe, duration,
                   segment_duration, end_time, cuts, segments, tasks,
                   completed, firstExc, content, ci, ri, output, error>>

\* lines 149-151: exit(1)
UploadFail ==
    /\ pc = "upload"
    /\ Raise("SystemExit", 0)
    /\ UNCHANGED <<SEGMENT_DIVIDER, extract, convert, probe, duration,
                   segment_duration, start_time, end_time, segment_index, cuts,
                   segments, tasks, completed, firstExc, content, ci, ri,
                   output>>

\* lines 110 and 155
ReturnSegments ==
    /\ pc = "loop"
    /\ ~(start_time < duration)
    /\ pc' = "launch"
    /\ UNCHANGED <<SEGMENT_DIVIDER, extract, convert, probe, duration,
                   segment_duration, start_time, end_time, segment_index, cuts,
                   segments, tasks, completed, firstExc, content, ci, ri,
                   output, error>>

\* ---- fan-out, lines 194-197 ----

NewTask(segment) ==
    [uri |-> segment.uri, start_time |-> segment.start_time,
     state |-> "created", results |-> <<>>, exc |-> "none"]

\* variant of lines 196-197: each new task is put at the front of the list
LaunchTasks_front ==
    /\ pc = "launch"
    /\ tasks' = [i \in 1..Len(segments) |->
                    NewTask(segments[Len(segments) + 1 - i])]
    /\ pc' = "gather"
    /\ UNCHANGED <<SEGMENT_DIVIDER, extract, convert, probe, duration,
                   segment_duration, start_time, end_time, segment_index, cuts,
                   segments, completed, firstExc, content, ci, ri, output,
                   error>>

LaunchTasks ==
    /\ pc = "launch"
    /\ tasks' = [i \in 1..Len(segments) |-> NewTask(segments[i])]
    /\ pc' = "gather"
    /\ UNCHANGED <<SEGMENT_DIVIDER, extract, convert, probe, duration,
                   segment_duration, start_time, end_time, segment_index, cuts,
                   segments, completed, firstExc, content, ci, ri, output,
                   error>>

\* ---- run_async_transcribe, lines 158-175, one per task ----

TaskFailed(i, kind) ==
    /\ tasks' = [tasks EXCEPT ![i].state = "failed", ![i].exc = kind]
    /\ completed' = Append(completed, i)
    /\ firstExc' = IF firstExc = 0 THEN i ELSE firstExc

\* line 171 returns the long-running operation
WorkerSubmit(i) ==
    /\ pc = "gather"
    /\ tasks[i].state = "created"
    /\ tasks' = [tasks EXCEPT ![i].state = "submitted"]
    /\ UNCHANGED <<pc, SEGMENT_DIVIDER, extract, convert, probe, duration,
                   segment_duration, start_time, end_time, segment_index, cuts,
                   segments, completed, firstExc, content, ci, ri, output,
                   error>>

\* line 171 raises
WorkerSubmitFail(i) ==
    /\ pc = "gather"
    /\ tasks[i].state = "created"
    /\ TaskFailed(i, "GoogleAPICallError")
    /\ UNCHANGED <<pc, SEGMENT_DIVIDER, extract, convert, probe, duration,
                   segment_duration, start_time, end_time, segment_index, cuts,
                   segments, content, ci, ri, output, error>>

\* lines 174-175: the operation resolves within the timeout
WorkerResult(i) ==
    /\ pc = "gather"
    /\ tasks[i].state = "submitted"
    /\ \E r \in Results :
          tasks' = [tasks EXCEPT ![i].state = "done", ![i].results = r]
    /\ completed' = Append(completed, i)
    /\ UNCHANGED <<pc, SEGMENT_DIVIDER, extract, convert, probe, duration,
                   segment_duration, start_time, end_time, segment_index, cuts,
                   segments, firstExc, content, ci, ri, output, error>>

\* line 174 raises: the timeout elapses or the operation reports an error
WorkerResultFail(i) ==
    /\ pc = "gather"
    /\ tasks[i].state = "submitted"
    /\ \E e \in WorkerErrors : TaskFailed(i, e)
    /\ UNCHANGED <<pc, SEGMENT_DIVIDER, extract, convert, probe, duration,
                   segment_duration, start_time, end_time, segment_index, cuts,
                   segments, content, ci, ri, output, error>>

\* ---- fan-in, line 199 ----

\* variant of line 199 with return_exceptions=True: a raised exception
\* counts as a result
GatherDone_exceptions(ts) ==
    \A i \in 1..Len(ts) : ts[i].state \in {"done", "failed"}

\* gather's future resolves with a result once every task has returned
GatherDone(ts) == \A i \in 1..Len(ts) : ts[i].state = "done"

\* the result list follows the order of the awaitables, not of completion
GatherReturn ==
    /\ pc = "gather"
    /\ GatherDone(tasks)
    /\ content' = [i \in 1..Len(tasks) |->
                      [results |-> tasks[i].results,
                       start_time |-> tasks[i].start_time]]
    /\ ci' = 1
    /\ ri' = 1
    /\ pc' = "print"
    /\ UNCHANGED <<SEGMENT_DIVIDER, extract, convert, probe, duration,
                   segment_duration, start_time, end_time, segment_index, cuts,
                   segments, tasks, completed, firstExc, output, error>>

\* return_exceptions is False: the first exception is propagated at once,
\* the other tasks are left running
GatherRaise ==
    /\ pc = "gather"
    /\ firstExc # 0
    /\ Raise(tasks[firstExc].exc, firstExc)
    /\ UNCHANGED <<SEGMENT_DIVIDER, extract, convert, probe, duration,
                   segment_duration, start_time, end_time, segment_index, cuts,
                   segments, tasks, completed, firstExc, content, ci, ri,
                   output>>

\* ---- printing, lines 200-202 ----

\* variant of lines 201-202 that walks a fragment from its last result
PrintLine_backwards ==
    /\ pc = "print"
    /\ ci <= Len(content)
    /\ ri <= Len(content[ci].results)
    /\ output' = Append(output,
          [seg |-> tasks[ci].uri,
           start_time |-> content[ci].start_time,
           transcript |->
               content[ci].results[Len(content[ci].results) + 1 - ri]])
    /\ ri' = ri + 1
    /\ UNCHANGED <<pc, SEGMENT_DIVIDER, extract, convert, probe, duration,
                   segment_duration, start_time, end_time, segment_index, cuts,
                   segments, tasks, completed, firstExc, content, ci, error>>

\* line 202; seg records the task the line comes from
PrintLine ==
    /\ pc = "print"
    /\ ci <= Len(content)
    /\ ri <= Len(content[ci].results)
    /\ output' = Append(output, [seg |-> tasks[ci].uri,
                                 start_time |-> content[ci].start_time,
                                 transcript |-> content[ci].results[ri]])
    /\ ri' = ri + 1
    /\ UNCHANGED <<pc, SEGMENT_DIVIDER, extract, convert, probe, duration,
                   segment_duration, start_time, end_time, segment_index, cuts,
                   segments, tasks, completed, firstExc, content, ci, error>>

\* line 201 is exhausted, line 200 takes the next element of content
NextFragment ==
    /\ pc = "print"
    /\ ci <= Len(content)
    /\ ri > Len(content[ci].results)
    /\ ci' = ci + 1
    /\ ri' = 1
    /\ UNCHANGED <<pc, SEGMENT_DIVIDER, extract, convert, probe, duration,
                   segment_duration, start_time, end_time, segment_index, cuts,
                   segments, tasks, completed, firstExc, content, output,
                   error>>

\* line 200 is exhausted, the coroutine returns
PrintDone ==
    /\ pc = "print"
    /\ ci > Len(content)
    /\ pc' = "done"
    /\ UNCHANGED <<SEGMENT_DIVIDER, extract, convert, probe, duration,
                   segment_duration, start_time, end_time, segment_index, cuts,
                   segments, tasks, completed, firstExc, content, ci, ri,
                   output, error>>

\* ---- asyncio.run, line 212: the exception leaves the main coroutine, ----
\* ---- the remaining tasks are cancelled and the process exits        ----

Shutdown ==
    /\ pc = "raised"
    /\ tasks' = [i \in 1..Len(tasks) |->
                    IF tasks[i].state \in {"created", "submitted"}
                      THEN [tasks[i] EXCEPT !.state = "cancelled"]
                      ELSE tasks[i]]
    /\ pc' = "failed"
    /\ UNCHANGED <<SEGMENT_DIVIDER, extract, convert, probe, duration,
                   segment_duration, start_time, end_time, segment_index, cuts,
                   segments, completed, firstExc, content, ci, ri, output,
                   error>>

Next ==
    \/ ExtractOk \/ ExtractFail \/ ConvertOk \/ ConvertFail
    \/ ProbeOk \/ ProbeFail \/ Plan
    \/ CutOk \/ CutFail \/ UploadOk \/ UploadFail \/ ReturnSegments
    \/ LaunchTasks
    \/ \E i \in 1..Len(tasks) :
          \/ WorkerSubmit(i) \/ WorkerSubmitFail(i)
          \/ WorkerResult(i) \/ WorkerResultFail(i)
    \/ GatherReturn \/ GatherRaise
    \/ PrintLine \/ NextFragment \/ PrintDone
    \/ Shutdown

Spec == Init /\ [][Next]_vars

\* ======================= properties =======================

IntDivisor == SEGMENT_DIVIDER.type = "int"

\* split_audio_into_segments has computed segment_duration (line 101)
Planned == probe = "ok" /\ pc \notin {"probe", "plan"}

\* split_audio_into_segments has returned its list (line 155)
Returned == pc \in {"launch", "gather", "print", "done"} \/ tasks # <<>>

\* the run was ended by a failed cut (line 119) or a failed upload (line 151)
CutOrUploadFailed ==
    /\ pc \in {"raised", "failed"}
    /\ probe = "ok"
    /\ error.kind \in {"CalledProcessError", "SystemExit"}

FailedTasks == {i \in 1..Len(tasks) : tasks[i].state = "failed"}

SucceededTasks == {i \in 1..Len(tasks) : tasks[i].state = "done"}

\* C1: the printed lines are in ascending order of the segment they come
\* from, whatever the order in which the tasks completed.
C1_OutputInSegmentOrder ==
    \A p, q \in 1..Len(output) : p < q => output[p].seg <= output[q].seg

\* three tasks completed in reverse order and lines of different segments
\* were printed
C1_Witness ==
    /\ pc = "done"
    /\ completed = <<3, 2, 1>>
    /\ \E p, q \in 1..Len(output) : output[p].seg # output[q].seg

\* C2: for duration > 0, divisor > 0 and floor(duration/divisor) > 0 the
\* windows cut by the loop start at 0, are contiguous, non-empty, inside
\* [0, duration], numbered 1, 2, 3, ... and, once the loop has returned, end
\* at duration; 125 s with divisor 2 gives (1,0,62), (2,62,124), (3,124,125).
C2_WindowsPartition ==
    (/\ Planned
     /\ IntDivisor
     /\ SEGMENT_DIVIDER.value > 0
     /\ duration > 0
     /\ SegmentDuration(duration, SEGMENT_DIVIDER.value) > 0)
    =>
    /\ \A k \in 1..Len(cuts) :
          /\ cuts[k].index = k
          /\ 0 <= cuts[k].start
          /\ cuts[k].start < cuts[k].end
          /\ cuts[k].end <= duration
          /\ cuts[k].start = IF k = 1 THEN 0 ELSE cuts[k - 1].end
    /\ Returned => /\ Len(cuts) > 0
                   /\ cuts[Len(cuts)].end = duration
    /\ (Returned /\ duration = 125 * TicksPerSecond
                 /\ SEGMENT_DIVIDER.value = 2)
       => cuts = << [index |-> 1, start |-> 0,
                     end |-> 62 * TicksPerSecond],
                    [index |-> 2, start |-> 62 * TicksPerSecond,
                     end |-> 124 * TicksPerSecond],
                    [index |-> 3, start |-> 124 * TicksPerSecond,
                     end |-> 125 * TicksPerSecond] >>

\* the loop has returned three windows, the last one shorter
C2_Witness ==
    /\ pc = "launch"
    /\ IntDivisor
    /\ SEGMENT_DIVIDER.value = 2
    /\ duration = 125 * TicksPerSecond
    /\ Len(cuts) = 3
    /\ cuts[3].end - cuts[3].start < segment_duration

\* C3: a line is printed only if every task returned a result; when a task
\* has failed nothing is printed and the run does not end normally.
C3_NoLineUnlessAllSucceeded ==
    /\ output # <<>> => \A i \in 1..Len(tasks) : tasks[i].state = "done"
    /\ FailedTasks # {} => output = <<>> /\ pc \notin {"print", "done"}

\* the run failed on one task while another had recognised phrases
C3_Witness ==
    /\ pc = "failed"
    /\ FailedTasks # {}
    /\ \E j \in SucceededTasks : tasks[j].results # <<>>
    /\ output = <<>>

\* what the exception that ended the run tells about the tasks: it is the
\* exception of one task and carries nothing about the others
ReportedFailed == IF error.task = 0 THEN {} ELSE {error.task}

ReportedSucceeded == {}

\* C4: when tasks fail the run's failure names exactly the tasks that
\* failed and exactly the tasks that succeeded.
C4_FailureReportsAllIndices ==
    (pc = "raised" /\ error.task # 0)
    => /\ ReportedFailed = FailedTasks
       /\ ReportedSucceeded = SucceededTasks

\* C5: when duration > 0 and divisor > 0 but floor(duration/divisor) = 0
\* the segmentation fails and no window is cut, uploaded or appended.
C5_DegenerateFails ==
    (/\ Planned
     /\ IntDivisor
     /\ SEGMENT_DIVIDER.value > 0
     /\ duration > 0
     /\ SegmentDuration(duration, SEGMENT_DIVIDER.value) = 0)
    => /\ pc \in {"raised", "failed"}
       /\ cuts = <<>>
       /\ segments = <<>>

\* C6: with divisor <= 0 or duration <= 0 the segmentation fails: it cuts
\* no window, returns no list and no task is launched.
C6_InvalidConfigurationFails ==
    (/\ Planned
     /\ IntDivisor
     /\ (SEGMENT_DIVIDER.value <= 0 \/ duration <= 0))
    => /\ pc \in {"raised", "failed"}
       /\ cuts = <<>>
       /\ tasks = <<>>

\* C7: a failed cut or upload ends the run at once: the failing window is
\* the last one cut, no task is launched and nothing is printed; and when
\* tasks are launched there is one per window cut, in order, and the windows
\* reach the end of the audio.
C7_CutOrUploadFailureAborts ==
    /\ CutOrUploadFailed
       => /\ tasks = <<>>
          /\ output = <<>>
          /\ Len(cuts) = Len(segments) + 1
          /\ cuts[Len(cuts)].index = segment_index
    /\ tasks # <<>>
       => /\ Len(tasks) = Len(cuts)
          /\ \A i \in 1..Len(tasks) : tasks[i].uri = cuts[i].index
          /\ ~(start_time < duration)

\* the upload of the second window failed while audio remained to be cut
C7_Witness ==
    /\ pc = "failed"
    /\ error.kind = "SystemExit"
    /\ probe = "ok"
    /\ Len(cuts) = 2
    /\ end_time < duration

\* C8: after a failed extraction or a failed mono conversion the audio is
\* never probed, no segment is cut and no task is launched.
C8_ConversionFailureIsFatal ==
    (extract = "failed" \/ convert = "failed")
    => /\ probe = "none"
       /\ cuts = <<>>
       /\ tasks = <<>>

\* the fragments of the tasks, with the label of the window of each
Fragments ==
    [i \in 1..Len(tasks) |->
        [startLabel |-> StartTimeStr(cuts[i].start),
         phrases |-> tasks[i].results]]

RECURSIVE Flatten(_)
Flatten(frags) ==
    IF frags = <<>>
      THEN <<>>
      ELSE LET f == Head(frags)
           IN [k \in 1..Len(f.phrases) |-> <<f.startLabel, f.phrases[k]>>]
              \o Flatten(Tail(frags))

RECURSIVE PhraseCount(_)
PhraseCount(frags) ==
    IF frags = <<>> THEN 0
    ELSE Len(Head(frags).phrases) + PhraseCount(Tail(frags))

Printed ==
    [k \in 1..Len(output) |-> <<output[k].start_time, output[k].transcript>>]

\* C9: when all tasks succeed the printed lines are the fragments flattened
\* in order: one line per phrase, each with the start label of the window
\* of its segment, phrases of one segment in the order they were returned.
C9_TranscriptIsFlattening ==
    /\ pc = "done"
       => /\ Printed = Flatten(Fragments)
          /\ Len(output) = PhraseCount(Fragments)
    /\ pc = "print"
       => /\ Len(output) <= PhraseCount(Fragments)
          /\ Printed = SubSeq(Flatten(Fragments), 1, Len(output))
    /\ \A k \in 1..Len(output) :
          output[k].start_time = StartTimeStr(cuts[output[k].seg].start)

\* fragments {00:00:00, [a, b]} and {00:01:02, [c]} were printed
C9_Witness ==
    /\ pc = "done"
    /\ Printed = << <<(<<0, 0, 0>>), "a">>, <<(<<0, 0, 0>>), "b">>,
                    <<(<<0, 1, 2>>), "c">> >>

\* C10: the coordinator leaves its wait on the tasks only when every task
\* has returned or raised.
C10_JoinAll ==
    (tasks # <<>> /\ pc \in {"print", "done", "raised"})
    => \A i \in 1..Len(tasks) : tasks[i].state \in {"done", "failed"}
====
